---- MODULE Spec2Model ----
(***************************************************************************)
(* The registry builder (scripts/build-registry.mjs, main and its helpers) *)
(* and the static server (withGzip and the request handler of the Go main) *)
(* as one state machine over the shared dist directory.                    *)
(*                                                                         *)
(* A string is a sequence of one-character strings, so that split, trim,   *)
(* startsWith, the URL parse and the path tests are computed character by  *)
(* character as the code computes them.  A file is a sequence of bytes.    *)
(***************************************************************************)
EXTENDS Integers, Sequences, FiniteSets, TLC

VARIABLES
  md,        \* registry.md: [exists, text]
  distDir,   \* whether the dist directory exists
  dist,      \* the files of dist: file name -> bytes
  pc,        \* position of the builder process in main
  rows,      \* main's local: the parsed rows
  body,      \* main's local: the serialized body
  version,   \* main's local: the version string
  fullBuf,   \* main's local: the bytes written to both files
  stderr,    \* the error the run ended with: [kind, lines]
  stdout,    \* the summary printed by a successful run
  runs,      \* number of builder invocations so far
  readMd,    \* history: the text the current run read
  startDist, \* history: dist when the current run was invoked
  prev,      \* history: outcome of the previous finished run
  keepHeaders, \* the Go build: http.FileServer's error replies keep the
               \* headers already set (before Go 1.23) or drop the
               \* Cache-Control and Content-Encoding among them
  req,       \* the last HTTP request handled
  resp,      \* the response to it
  servedFrom \* history: the files of dist when that request was handled

vars == <<md, distDir, dist, pc, rows, body, version, fullBuf, stderr, stdout,
          runs, readMd, startDist, prev, keepHeaders, req, resp,
          servedFrom>>

builderLocals == <<rows, body, version, fullBuf, stderr, stdout, readMd>>
serverVars == <<keepHeaders, req, resp, servedFrom>>

----------------------------------------------------------------------------
(* Bounds *)

\* body lines of a generated document
MaxRows == 3
\* builder invocations in one behaviour
MaxRuns == 2

----------------------------------------------------------------------------
(* Characters and strings *)

Range(f) == {f[i] : i \in DOMAIN f}

Min(S) == CHOOSE x \in S : \A y \in S : x <= y
Max(S) == CHOOSE x \in S : \A y \in S : x >= y

\* the characters of the model with their UTF-8 (ASCII) byte
CharTable ==
  << <<"\t", 9>>, <<"\n", 10>>, <<"\r", 13>>, <<" ", 32>>, <<"#", 35>>,
     <<",", 44>>, <<"-", 45>>, <<".", 46>>, <<"/", 47>>,
     <<"0", 48>>, <<"1", 49>>, <<"2", 50>>, <<"3", 51>>, <<"4", 52>>,
     <<"5", 53>>, <<"6", 54>>, <<"7", 55>>, <<"8", 56>>, <<"9", 57>>,
     <<":", 58>>, <<"=", 61>>,
     <<"H", 72>>, <<"P", 80>>, <<"S", 83>>, <<"T", 84>>, <<"V", 86>>,
     <<"_", 95>>,
     <<"a", 97>>, <<"b", 98>>, <<"c", 99>>, <<"d", 100>>, <<"e", 101>>,
     <<"f", 102>>, <<"g", 103>>, <<"h", 104>>, <<"i", 105>>, <<"j", 106>>,
     <<"l", 108>>, <<"m", 109>>, <<"n", 110>>, <<"o", 111>>, <<"p", 112>>,
     <<"q", 113>>, <<"r", 114>>, <<"s", 115>>, <<"t", 116>>, <<"u", 117>>,
     <<"v", 118>>, <<"x", 120>>, <<"y", 121>>, <<"z", 122>>, <<"|", 124>> >>

Chars == {p[1] : p \in Range(CharTable)}

CodeOf == [c \in Chars |-> (CHOOSE p \in Range(CharTable) : p[1] = c)[2]]

\* Buffer.from(s, "utf8")
Utf8(s) == [i \in 1..Len(s) |-> CodeOf[s[i]]]

\* the white space String.prototype.trim and the regular expression \s know
IsWs(c) == c \in {" ", "\t", "\n", "\r"}

UpperToLower ==
  [c \in {"H", "P", "S", "T", "V"} |->
     CASE c = "H" -> "h" [] c = "P" -> "p" [] c = "S" -> "s"
       [] c = "T" -> "t" [] c = "V" -> "v"]

LowerChar(c) == IF c \in DOMAIN UpperToLower THEN UpperToLower[c] ELSE c

\* strings.ToLower, and the URL parser's lower-casing of the scheme
ToLower(s) == [i \in 1..Len(s) |-> LowerChar(s[i])]

IsAlpha(c) == LowerChar(c) \in
  {"a", "b", "c", "d", "e", "f", "g", "h", "i", "j", "l", "m", "n", "o", "p",
   "q", "r", "s", "t", "u", "v", "x", "y", "z"}

IsDigit(c) == c \in {"0", "1", "2", "3", "4", "5", "6", "7", "8", "9"}

\* String.prototype.trim
Trim(s) ==
  LET keep == {i \in 1..Len(s) : ~IsWs(s[i])}
  IN  IF keep = {} THEN <<>> ELSE SubSeq(s, Min(keep), Max(keep))

\* String.prototype.startsWith / strings.HasPrefix
StartsWith(s, p) == Len(p) <= Len(s) /\ SubSeq(s, 1, Len(p)) = p

\* strings.HasSuffix
EndsWith(s, p) ==
  Len(p) <= Len(s) /\ SubSeq(s, Len(s) - Len(p) + 1, Len(s)) = p

\* String.prototype.includes / strings.Contains
Includes(s, p) ==
  \E i \in 1..(Len(s) - Len(p) + 1) : SubSeq(s, i, i + Len(p) - 1) = p

\* String.prototype.split on a one-character separator
RECURSIVE Split(_, _)
Split(s, c) ==
  LET at == {i \in 1..Len(s) : s[i] = c}
  IN  IF at = {} THEN <<s>>
      ELSE <<SubSeq(s, 1, Min(at) - 1)>>
             \o Split(SubSeq(s, Min(at) + 1, Len(s)), c)

\* Array.prototype.join
RECURSIVE Join(_, _)
Join(parts, sep) ==
  IF parts = <<>> THEN <<>>
  ELSE IF Len(parts) = 1 THEN parts[1]
  ELSE parts[1] \o sep \o Join(Tail(parts), sep)

\* .map((x) => x.trim()).filter((x) => x.length > 0)
TrimmedNonEmpty(parts) ==
  SelectSeq([i \in 1..Len(parts) |-> Trim(parts[i])], LAMBDA x : Len(x) > 0)

\* String.prototype.split(/\r?\n/): a \r right before the \n belongs to the
\* separator
SplitLines(s) ==
  LET raw == Split(s, "\n")
  IN  [i \in 1..Len(raw) |->
         IF i < Len(raw) /\ Len(raw[i]) > 0 /\ raw[i][Len(raw[i])] = "\r"
         THEN SubSeq(raw[i], 1, Len(raw[i]) - 1)
         ELSE raw[i]]

\* String.prototype.replaceAll of one character by another
ReplaceAll(s, from, to) == [i \in 1..Len(s) |-> IF s[i] = from THEN to ELSE s[i]]

----------------------------------------------------------------------------
(* Helpers of the builder *)

SLUG == <<"s", "l", "u", "g">>
TITLE == <<"t", "i", "t", "l", "e">>
URL == <<"u", "r", "l">>
TAGS == <<"t", "a", "g", "s">>

\* tsvEscape
tsvEscape(s) ==
  ReplaceAll(ReplaceAll(ReplaceAll(s, "\t", " "), "\r", " "), "\n", " ")

\* new URL(s) followed by the protocol test.  The URL parser is the WHATWG
\* one restricted to the characters of the model (no credentials, no IPv6
\* literal, no percent-encoding): tab and newline are removed from the
\* input; a scheme is an ASCII letter followed by letters, digits, +, - and .
\* up to the first colon, and without one the parse fails for want of a base;
\* a special scheme skips any run of slashes and then needs a non-empty host
\* free of forbidden code points, optionally followed by a numeric port.
isHttpUrl(s) ==
  LET t == SelectSeq(Trim(s), LAMBDA c : c \notin {"\t", "\n", "\r"})
      colons == {i \in 1..Len(t) : t[i] = ":"}
  IN  /\ colons # {}
      /\ LET k == Min(colons)
             scheme == ToLower(SubSeq(t, 1, k - 1))
             rest == SubSeq(t, k + 1, Len(t))
             nonSlash == {i \in 1..Len(rest) : rest[i] # "/"}
             afterSlashes ==
               IF nonSlash = {} THEN <<>>
               ELSE SubSeq(rest, Min(nonSlash), Len(rest))
             ends == {i \in 1..Len(afterSlashes) :
                        afterSlashes[i] \in {"/", "#"}}
             authority ==
               IF ends = {} THEN afterSlashes
               ELSE SubSeq(afterSlashes, 1, Min(ends) - 1)
             hostPort == Split(authority, ":")
             host == hostPort[1]
         IN  /\ k > 1
             /\ IsAlpha(t[1])
             /\ \A i \in 2..(k - 1) :
                  IsAlpha(t[i]) \/ IsDigit(t[i]) \/ t[i] \in {"-", "."}
             /\ scheme \in {<<"h", "t", "t", "p">>, <<"h", "t", "t", "p", "s">>}
             /\ Len(host) > 0
             /\ \A i \in 1..Len(host) : host[i] \notin {" ", "|", "\t", "\n", "\r"}
             /\ Len(hostPort) <= 2
             /\ Len(hostPort) = 2 =>
                  \A i \in 1..Len(hostPort[2]) : IsDigit(hostPort[2][i])

HexDigits == <<"0", "1", "2", "3", "4", "5", "6", "7", "8", "9", "a", "b", "c", "d", "e", "f">>

RECURSIVE SumBytes(_, _)
SumBytes(buf, weighted) ==
  IF buf = <<>> THEN 0
  ELSE (IF weighted THEN Len(buf) * buf[Len(buf)] ELSE buf[Len(buf)])
         + SumBytes(SubSeq(buf, 1, Len(buf) - 1), weighted)

Pow16 == <<1, 16, 256, 4096>>

\* characters of a hex SHA-256 digest
DigestLen == 64

\* sha256hex: a digest of the bytes and of nothing else, as DigestLen hex
\* digits.  The digest is a position-weighted checksum standing for SHA-256.
sha256hex(buf) ==
  LET s1 == SumBytes(buf, FALSE)
      s2 == SumBytes(buf, TRUE)
  IN  [i \in 1..DigestLen |->
         HexDigits[(((s2 \div Pow16[((i - 1) % 4) + 1]) + i * s1) % 16) + 1]]

----------------------------------------------------------------------------
(* parseMarkdownTable *)

StartsWithPipe(line) == StartsWith(Trim(line), <<"|">>)

\* line.split("|").map(trim).filter(non-empty)
Cells(line) == TrimmedNonEmpty(Split(Trim(line), "|"))

\* while (cells.length < headers.length) cells.push("")
PadCells(cells, n) ==
  [c \in 1..(IF Len(cells) < n THEN n ELSE Len(cells)) |->
     IF c <= Len(cells) THEN cells[c] ELSE <<>>]

\* the property name an object literal does not store: assigning a string to
\* it calls the setter of Object.prototype, which ignores it
PROTO == <<"_", "_", "p", "r", "o", "t", "o", "_", "_">>

\* const row = {}; for (c...) row[headers[c]] = cells[c] ?? "": a later
\* assignment to the same key replaces the earlier one
MakeRow(headers, cells) ==
  LET padded == PadCells(cells, Len(headers))
  IN  [h \in Range(headers) \ {PROTO} |->
         padded[Max({c \in 1..Len(headers) : headers[c] = h})]]

\* the loop with break in place of continue at a line without cells
RECURSIVE BodyRowsStopAtEmpty(_, _, _)
BodyRowsStopAtEmpty(lines, i, headers) ==
  IF i > Len(lines) \/ ~StartsWithPipe(lines[i]) THEN <<>>
  ELSE IF Len(Cells(lines[i])) = 0 THEN <<>>
  ELSE <<MakeRow(headers, Cells(lines[i]))>>
         \o BodyRowsStopAtEmpty(lines, i + 1, headers)

\* the loop over the body lines, from lines[i]
RECURSIVE BodyRows(_, _, _)
BodyRows(lines, i, headers) ==
  IF i > Len(lines) \/ ~StartsWithPipe(lines[i]) THEN <<>>
  ELSE IF Len(Cells(lines[i])) = 0 THEN BodyRows(lines, i + 1, headers)
  ELSE <<MakeRow(headers, Cells(lines[i]))>> \o BodyRows(lines, i + 1, headers)

parseMarkdownTable(mdText) ==
  LET lines == SplitLines(mdText)
      cand == {i \in 1..Len(lines) :
                 /\ StartsWithPipe(lines[i])
                 /\ Includes(Trim(lines[i]), <<"|">>)
                 /\ i + 1 <= Len(lines)
                 /\ StartsWithPipe(lines[i + 1])}
  IN  IF cand = {}
      THEN [ok |-> FALSE, error |-> "No markdown table found in registry.md",
            headers |-> <<>>, rows |-> <<>>]
      ELSE LET start == Min(cand)
               headers == Cells(lines[start])
           IN  IF ~Includes(Trim(lines[start + 1]), <<"-", "-", "-">>)
               THEN [ok |-> FALSE,
                     error |-> "Markdown delimiter line not found after header",
                     headers |-> <<>>, rows |-> <<>>]
               ELSE [ok |-> TRUE, error |-> "", headers |-> headers,
                     rows |-> BodyRows(lines, start + 2, headers)]

----------------------------------------------------------------------------
(* validateRows *)

\* String(r.k ?? "")
Field(r, k) == IF k \in DOMAIN r THEN r[k] ELSE <<>>

Required == <<SLUG, TITLE, URL, TAGS>>

\* one line of the report
Violation(kind, atRows, arg) == [kind |-> kind, rows |-> atRows, arg |-> arg]

When(cond, v) == IF cond THEN <<v>> ELSE <<>>

\* the first loop's checks chained with else: one violation a row at most
RowErrorsFirstOnly(r, i) ==
  LET slug == Trim(Field(r, SLUG))
      title == Trim(Field(r, TITLE))
      url == Trim(Field(r, URL))
      missing == SelectSeq(Required, LAMBDA k : k \notin DOMAIN r)
  IN  IF missing # <<>> THEN <<Violation("missing column", <<i>>, missing[1])>>
      ELSE IF slug = <<>> THEN <<Violation("empty slug", <<i>>, <<>>)>>
      ELSE IF \E j \in 1..Len(slug) : IsWs(slug[j])
      THEN <<Violation("slug has whitespace", <<i>>, slug)>>
      ELSE IF title = <<>> THEN <<Violation("empty title", <<i>>, <<>>)>>
      ELSE IF url = <<>> THEN <<Violation("empty url", <<i>>, <<>>)>>
      ELSE IF ~isHttpUrl(url)
      THEN <<Violation("url is not http(s)", <<i>>, url)>>
      ELSE <<>>

\* the body of the first loop for rows[i]
RowErrors(r, i) ==
  LET slug == Trim(Field(r, SLUG))
      title == Trim(Field(r, TITLE))
      url == Trim(Field(r, URL))
      missing ==
        SelectSeq(Required, LAMBDA k : k \notin DOMAIN r)
  IN  [j \in 1..Len(missing) |-> Violation("missing column", <<i>>, missing[j])]
      \o When(slug = <<>>, Violation("empty slug", <<i>>, <<>>))
      \o When(\E j \in 1..Len(slug) : IsWs(slug[j]),
              Violation("slug has whitespace", <<i>>, slug))
      \o When(title = <<>>, Violation("empty title", <<i>>, <<>>))
      \o When(url = <<>>, Violation("empty url", <<i>>, <<>>))
      \o When(url # <<>> /\ ~isHttpUrl(url),
              Violation("url is not http(s)", <<i>>, url))

RECURSIVE PerRowErrors(_, _)
PerRowErrors(rs, i) ==
  IF i > Len(rs) THEN <<>>
  ELSE RowErrors(rs[i], i) \o PerRowErrors(rs, i + 1)

\* the second loop with seen.set(slug, i + 1) on a repeat as well
RECURSIVE DuplicateErrorsLatest(_, _, _)
DuplicateErrorsLatest(rs, i, seen) ==
  IF i > Len(rs) THEN <<>>
  ELSE LET slug == Trim(Field(rs[i], SLUG))
           seenNow == [s \in DOMAIN seen \cup {slug} |->
                         IF s = slug THEN i ELSE seen[s]]
       IN  IF slug = <<>> THEN DuplicateErrorsLatest(rs, i + 1, seen)
           ELSE IF slug \in DOMAIN seen
           THEN <<Violation("Duplicate slug", <<seen[slug], i>>, slug)>>
                  \o DuplicateErrorsLatest(rs, i + 1, seenNow)
           ELSE DuplicateErrorsLatest(rs, i + 1, seenNow)

\* the second loop, from rows[i], with the Map seen: slug -> first row
RECURSIVE DuplicateErrors(_, _, _)
DuplicateErrors(rs, i, seen) ==
  IF i > Len(rs) THEN <<>>
  ELSE LET slug == Trim(Field(rs[i], SLUG))
       IN  IF slug = <<>> THEN DuplicateErrors(rs, i + 1, seen)
           ELSE IF slug \in DOMAIN seen
           THEN <<Violation("Duplicate slug", <<seen[slug], i>>, slug)>>
                  \o DuplicateErrors(rs, i + 1, seen)
           ELSE DuplicateErrors(rs, i + 1,
                  [s \in DOMAIN seen \cup {slug} |->
                     IF s = slug THEN i ELSE seen[s]])

\* validateRows: the violations it collects; it throws when there are any
validateRows(rs) == PerRowErrors(rs, 1) \o DuplicateErrors(rs, 1, <<>>)

----------------------------------------------------------------------------
(* buildTSVBody *)

\* the normalization with the repeated tags dropped
NormalizeTagsUnique(raw) ==
  LET pieces == TrimmedNonEmpty(Split(raw, ","))
      first == {i \in 1..Len(pieces) :
                  \A j \in 1..(i - 1) : pieces[j] # pieces[i]}
  IN  Join([n \in 1..Cardinality(first) |->
              pieces[CHOOSE i \in first :
                       Cardinality({j \in first : j <= i}) = n]], <<",">>)

\* String(r.tags ?? "").split(",").map(trim).filter(Boolean).join(",")
NormalizeTags(raw) == Join(TrimmedNonEmpty(Split(raw, ",")), <<",">>)

RowLine(r) ==
  Join(<< tsvEscape(Trim(Field(r, SLUG))),
          tsvEscape(Trim(Field(r, TITLE))),
          tsvEscape(Trim(Field(r, URL))),
          tsvEscape(NormalizeTags(Field(r, TAGS))) >>, <<"\t">>)

\* lines.join("\n") without the final newline
buildTSVBodyNoFinalNewline(rs) ==
  Join(<<Join(<<SLUG, TITLE, URL, TAGS>>, <<"\t">>)>>
         \o [i \in 1..Len(rs) |-> RowLine(rs[i])], <<"\n">>)

buildTSVBody(rs) ==
  Join(<<Join(<<SLUG, TITLE, URL, TAGS>>, <<"\t">>)>>
         \o [i \in 1..Len(rs) |-> RowLine(rs[i])], <<"\n">>) \o <<"\n">>

----------------------------------------------------------------------------
(* The documents registry.md is drawn from *)

HeaderLines ==
  << <<"|", " ", "s", "l", "u", "g", " ", "|", " ", "t", "i", "t", "l", "e", " ", "|", " ", "u", "r", "l", " ", "|", " ", "t", "a", "g", "s", " ", "|">>,
     <<"|", "s", "l", "u", "g", "|", "t", "i", "t", "l", "e", "|", "u", "r", "l", "|">>,
     <<"|", " ", "t", "a", "g", "s", " ", "|", " ", "s", "l", "u", "g", " ", "|", " ", "t", "i", "t", "l", "e", " ", "|", " ", "u", "r", "l", " ", "|", " ", "t", "a", "g", "s", " ", "|">>,
     <<"|", " ", "s", "l", "u", "g", " ", "|", " ", "t", "i", "t", "l", "e", " ", "|", " ", "u", "r", "l", " ", "|", " ", "t", "a", "g", "s", " ", "|", " ", "_", "_", "p", "r", "o", "t", "o", "_", "_", " ", "|">> >>

DelimLines == << <<"|", "-", "-", "-", "|", "-", "-", "-", "|", "-", "-", "-", "|", "-", "-", "-", "|">>, <<"|", " ", ":", "-", ":", " ", "|", " ", ":", "-", ":", " ", "|">> >>

Preambles == { <<>>, << <<"#", " ", "T">>, <<>> >>, << <<"|", " ", "x">>, <<>> >> }

BodyLines ==
  << <<"|", " ", "a", " ", "|", " ", "T", " ", "|", " ", "h", "t", "t", "p", ":", "/", "/", "x", " ", "|", " ", "t", ",", " ", ",", "u", ",", ",", "t", " ", "|">>,
     <<"|", " ", "b", " ", "|", " ", "T", " ", "|", " ", "h", "t", "t", "p", "s", ":", "/", "/", "x", "/", "y", " ", "z", " ", "|", " ", " ", "|">>,
     <<"|", " ", "a", " ", "|", " ", "T", " ", "|", " ", "f", "t", "p", ":", "/", "/", "x", " ", "|", " ", "t", " ", "|">>,
     <<"|", " ", "a", " ", "b", " ", "|", " ", " ", "|", " ", "h", "t", "t", "p", ":", "/", "/", "x", " ", "|", " ", "t", " ", "|">>,
     <<"|", " ", " ", "|">>,
     <<" ", " ", "|", " ", "c", " ", "|", " ", "T", " ", "|", " ", "H", "T", "T", "P", ":", "/", "/", "x", " ", "|", " ", "p", "\t", "q", ",", "r", " ", "|", " ", "e", " ", "|">>,
     <<"t", "e", "x", "t">> >>

LF == <<"\n">>
CRLF == <<"\r", "\n">>

\* the sequences of at most n body lines, as indices into BodyLines
Bodies(n) == UNION {[1..k -> 1..Len(BodyLines)] : k \in 0..n}

\* a document: the lines joined by the line ending, with a final line ending
MkDoc(pre, h, d, b, eol) ==
  Join(pre \o <<h, d>> \o [i \in 1..Len(b) |-> BodyLines[b[i]]], eol) \o eol

Docs ==
  {MkDoc(<<>>, HeaderLines[1], DelimLines[1], b, LF) : b \in Bodies(MaxRows)}
  \cup {MkDoc(p[1], HeaderLines[p[2]], DelimLines[p[3]], p[4], p[5]) :
          p \in Preambles \X (1..Len(HeaderLines)) \X (1..Len(DelimLines))
                  \X Bodies(1) \X {LF, CRLF}}
  \cup { <<"#", " ", "T", "\n", "\n", "t", "e", "x", "t", "\n">>, <<"|", " ", "s", "l", "u", "g", " ", "|", " ", "t", "i", "t", "l", "e", " ", "|", " ", "u", "r", "l", " ", "|", " ", "t", "a", "g", "s", " ", "|">> }

File(text) == [exists |-> TRUE, text |-> text]
NoFile == [exists |-> FALSE, text |-> <<>>]

----------------------------------------------------------------------------
(* The builder: main, one action per statement group *)

\* characters of the version string
VersionLen == 16

StableName == <<"r", "e", "g", "i", "s", "t", "r", "y", ".", "t", "s", "v">>

\* `registry.${version}.tsv`
hashedName(v) == <<"r", "e", "g", "i", "s", "t", "r", "y", ".">> \o v \o <<".", "t", "s", "v">>

\* fs.writeFileSync into dist: creates or replaces the file
WriteFile(d, name, bytes) ==
  [n \in DOMAIN d \cup {name} |-> IF n = name THEN bytes ELSE d[n]]

NoError == [kind |-> "", lines |-> <<>>]
NoSummary == [entries |-> 0, version |-> <<>>, files |-> <<>>]
NoPrev == [finished |-> FALSE, ok |-> FALSE, md |-> NoFile, version |-> <<>>,
           dist |-> <<>>]

\* a thrown error ends the process with a non-zero status
Throw(kind, lines) ==
  /\ stderr' = [kind |-> kind, lines |-> lines]
  /\ pc' = "failed"

InitBuilder ==
  /\ pc = "idle"
  /\ rows = <<>>
  /\ body = <<>>
  /\ version = <<>>
  /\ fullBuf = <<>>
  /\ stderr = NoError
  /\ stdout = NoSummary
  /\ runs = 0
  /\ readMd = NoFile
  /\ startDist = dist
  /\ prev = NoPrev

NoRequest == [path |-> <<>>, acceptEncoding |-> <<>>, gzipFails |-> FALSE]
NoResponse == [status |-> 0, headers |-> <<>>, body |-> <<>>]

Init ==
  /\ md \in {File(t) : t \in Docs} \cup {NoFile}
  /\ distDir = FALSE
  /\ dist = <<>>
  /\ InitBuilder
  /\ keepHeaders = TRUE
  /\ req = NoRequest
  /\ resp = NoResponse
  /\ servedFrom = <<>>

\* node scripts/build-registry.mjs is started; the process before it, if
\* any, has ended
Invoke ==
  /\ pc \in {"idle", "done", "failed"}
  /\ runs < MaxRuns
  /\ runs' = runs + 1
  /\ pc' = "ensureDir"
  /\ rows' = <<>>
  /\ body' = <<>>
  /\ version' = <<>>
  /\ fullBuf' = <<>>
  /\ stderr' = NoError
  /\ stdout' = NoSummary
  /\ readMd' = NoFile
  /\ startDist' = dist
  /\ prev' = IF pc = "idle" THEN prev
             ELSE [finished |-> TRUE, ok |-> pc = "done", md |-> readMd,
                   version |-> version, dist |-> dist]
  /\ UNCHANGED <<md, distDir, dist, serverVars>>

\* ensureDir(OUT_DIR)
EnsureDir ==
  /\ pc = "ensureDir"
  /\ distDir' = TRUE
  /\ pc' = "read"
  /\ UNCHANGED <<md, dist, builderLocals, runs, startDist, prev, serverVars>>

\* fs.readFileSync(INPUT_MD, "utf8") and parseMarkdownTable(md)
ReadParse ==
  /\ pc = "read"
  /\ readMd' = md
  /\ IF ~md.exists
     THEN /\ Throw("ENOENT: no such file or directory", <<>>)
          /\ UNCHANGED rows
     ELSE LET parsed == parseMarkdownTable(md.text)
          IN  IF ~parsed.ok
              THEN /\ Throw(parsed.error, <<>>)
                   /\ UNCHANGED rows
              ELSE /\ rows' = parsed.rows
                   /\ pc' = "validate"
                   /\ UNCHANGED stderr
  /\ UNCHANGED <<md, distDir, dist, body, version, fullBuf, stdout, runs,
                 startDist, prev, serverVars>>

\* validateRows reporting without throwing: the run goes on
ValidateWarnOnly ==
  /\ pc = "validate"
  /\ stderr' = [kind |-> "warnings", lines |-> validateRows(rows)]
  /\ pc' = "serialize"
  /\ UNCHANGED <<md, distDir, dist, rows, body, version, fullBuf, stdout,
                 runs, readMd, startDist, prev, serverVars>>

\* validateRows(rows)
Validate ==
  /\ pc = "validate"
  /\ LET errors == validateRows(rows)
     IN  IF errors # <<>>
         THEN Throw("Registry validation failed", errors)
         ELSE pc' = "serialize" /\ UNCHANGED stderr
  /\ UNCHANGED <<md, distDir, dist, rows, body, version, fullBuf, stdout,
                 runs, readMd, startDist, prev, serverVars>>

\* a version that also hashes something of the run: here its number
versionOfStamped(b) ==
  SubSeq(sha256hex(Utf8(b) \o <<runs>>), 1, VersionLen)

\* sha256hex(Buffer.from(body, "utf8")).slice(0, 16)
versionOf(b) == SubSeq(sha256hex(Utf8(b)), 1, VersionLen)

\* `#v=${version}\n`
metaOf(v) == <<"#", "v", "=">> \o v \o <<"\n">>

\* body, version, meta, full, fullBuf, hashedName
Serialize ==
  /\ pc = "serialize"
  /\ body' = buildTSVBody(rows)
  /\ version' = versionOf(body')
  /\ fullBuf' = Utf8(metaOf(version') \o body')
  /\ pc' = "writeStable"
  /\ UNCHANGED <<md, distDir, dist, rows, stderr, stdout, runs, readMd,
                 startDist, prev, serverVars>>

\* fs.writeFileSync(path.join(OUT_DIR, "registry.tsv"), fullBuf)
WriteStable ==
  /\ pc = "writeStable"
  /\ dist' = WriteFile(dist, StableName, fullBuf)
  /\ pc' = "writeHashed"
  /\ UNCHANGED <<md, distDir, builderLocals, runs, startDist, prev, serverVars>>

\* fs.writeFileSync(path.join(OUT_DIR, hashedName), fullBuf)
WriteHashed ==
  /\ pc = "writeHashed"
  /\ dist' = WriteFile(dist, hashedName(version), fullBuf)
  /\ pc' = "log"
  /\ UNCHANGED <<md, distDir, builderLocals, runs, startDist, prev, serverVars>>

\* the four console.log lines; main returns
Log ==
  /\ pc = "log"
  /\ stdout' = [entries |-> Len(rows), version |-> version,
                files |-> << <<"d", "i", "s", "t", "/">> \o StableName,
                             <<"d", "i", "s", "t", "/">> \o hashedName(version) >>]
  /\ pc' = "done"
  /\ UNCHANGED <<md, distDir, dist, rows, body, version, fullBuf, stderr,
                 runs, readMd, startDist, prev, serverVars>>

Next ==
  \/ Invoke
  \/ EnsureDir
  \/ ReadParse
  \/ Validate
  \/ Serialize
  \/ WriteStable
  \/ WriteHashed
  \/ Log

Spec == Init /\ [][Next]_vars

----------------------------------------------------------------------------
(* The static server: withGzip around the handler around http.FileServer *)

\* http.Header: name -> the values added under it, in order
HeaderGet(h, k) == IF k \in DOMAIN h /\ Len(h[k]) > 0 THEN h[k][1] ELSE ""
HeaderSet(h, k, v) == [n \in DOMAIN h \cup {k} |-> IF n = k THEN <<v>> ELSE h[n]]
HeaderAdd(h, k, v) ==
  [n \in DOMAIN h \cup {k} |->
     IF n = k THEN (IF k \in DOMAIN h THEN h[k] ELSE <<>>) \o <<v>> ELSE h[n]]

\* filepath.Ext: from the last dot of the last path element, or empty
Ext(path) ==
  LET slashes == {i \in 1..Len(path) : path[i] = "/"}
      from == IF slashes = {} THEN 1 ELSE Max(slashes) + 1
      dots == {i \in from..Len(path) : path[i] = "."}
  IN  IF dots = {} THEN <<>> ELSE SubSeq(path, Max(dots), Len(path))

\* mime.TypeByExtension, with the .tsv type main registers
ContentTypeOf(path) ==
  LET ext == ToLower(Ext(path))
  IN  CASE ext = <<".", "t", "s", "v">> -> "text/tab-separated-values; charset=utf-8"
        [] ext = <<".", "j", "s">> -> "text/javascript; charset=utf-8"
        [] ext = <<".", "h", "t", "m", "l">> -> "text/html; charset=utf-8"
        [] ext = <<".", "c", "s", "s">> -> "text/css; charset=utf-8"
        [] OTHER -> "text/plain; charset=utf-8"

\* the gzip stream of the bytes written through the writer until Close: the
\* member header, the data (kept as a stored block) and the length trailer
Gzip(bytes) == <<31, 139, 8>> \o bytes \o <<Len(bytes) % 256>>

\* the bytes a client decodes from a gzip stream
Gunzip(z) == SubSeq(z, 4, Len(z) - 1)

NotFoundBody == Utf8(<<"4", "0", "4", " ", "p", "a", "g", "e", " ", "n", "o", "t", " ", "f", "o", "u", "n", "d", "\n">>)

\* the headers an error reply of http.FileServer starts from
ErrorHeaders(headers, keep) ==
  IF keep THEN headers
  ELSE [n \in DOMAIN headers \ {"Cache-Control", "Content-Encoding"} |->
          headers[n]]

\* fs.ServeHTTP(w, r) on http.Dir(dir): the headers w already carries are
\* kept; a file is sent with its type and, when no Content-Encoding is set,
\* its length; a missing file is answered by http.Error
FileServer(files, path, headers, keep) ==
  LET name == SubSeq(path, 2, Len(path))
  IN  IF Len(path) > 1 /\ name \in DOMAIN files
      THEN [status |-> 200,
            headers |->
              LET typed == HeaderSet(HeaderSet(headers, "Accept-Ranges", "bytes"),
                                     "Content-Type", ContentTypeOf(path))
              IN  IF HeaderGet(headers, "Content-Encoding") = ""
                  THEN HeaderSet(typed, "Content-Length",
                                 ToString(Len(files[name])))
                  ELSE typed,
            body |-> files[name]]
      ELSE [status |-> 404,
            headers |->
              HeaderSet(HeaderSet(ErrorHeaders(headers, keep), "Content-Type",
                                  "text/plain; charset=utf-8"),
                        "X-Content-Type-Options", "nosniff"),
            body |-> NotFoundBody]

\* the Cache-Control the handler sets for the path
CacheHints(path, headers) ==
  IF StartsWith(path, <<"/", "r", "e", "g", "i", "s", "t", "r", "y", ".">>) /\ EndsWith(path, <<".", "t", "s", "v">>)
  THEN HeaderSet(headers, "Cache-Control", "public, max-age=31536000, immutable")
  ELSE IF path = <<"/", "r", "e", "g", "i", "s", "t", "r", "y", ".", "t", "s", "v">>
  THEN HeaderSet(headers, "Cache-Control", "public, max-age=60")
  ELSE headers

\* the handler of main, called with the headers w carries
handler(files, path, headers, keep) ==
  FileServer(files, path,
    CacheHints(path, HeaderSet(headers, "Access-Control-Allow-Origin", "*")),
    keep)

GzipExts == { <<".", "t", "s", "v">>, <<".", "h", "t", "m", "l">>, <<".", "j", "s">>, <<".", "c", "s", "s">> }

\* strings.Contains(r.Header.Get("Accept-Encoding"), "gzip")
AcceptsGzip(r) == Includes(r.acceptEncoding, <<"g", "z", "i", "p">>)

\* the test of strings.ToLower(filepath.Ext(r.URL.Path))
HasGzipExt(r) == ToLower(Ext(r.path)) \in GzipExts

\* withGzip without the Vary header
withGzipNoVary(files, r, keep) ==
  IF ~AcceptsGzip(r) \/ ~HasGzipExt(r)
  THEN handler(files, r.path, <<>>, keep)
  ELSE LET declared == HeaderSet(<<>>, "Content-Encoding", "gzip")
           inner == handler(files, r.path, declared, keep)
       IN  IF r.gzipFails THEN inner
           ELSE [inner EXCEPT !.body = Gzip(inner.body)]

\* withGzip(handler): the response to a request; gzipFails is whether
\* gzip.NewWriterLevel returns an error
withGzip(files, r, keep) ==
  IF ~AcceptsGzip(r)
  THEN handler(files, r.path, <<>>, keep)
  ELSE IF ~HasGzipExt(r)
  THEN handler(files, r.path, <<>>, keep)
  ELSE LET declared == HeaderAdd(HeaderSet(<<>>, "Content-Encoding", "gzip"),
                                 "Vary", "Accept-Encoding")
       IN  IF r.gzipFails
           THEN handler(files, r.path, declared, keep)
           ELSE LET inner == handler(files, r.path, declared, keep)
                IN  [inner EXCEPT !.body = Gzip(inner.body)]

\* the paths clients ask for: the files of dist and some fixed names
RequestPaths ==
  {<<"/">> \o n : n \in DOMAIN dist}
  \cup { <<"/", "r", "e", "g", "i", "s", "t", "r", "y", ".", "t", "s", "v">>, <<"/", "r", "e", "g", "i", "s", "t", "r", "y", ".", "a", "b", "c", "d", "e", "f", "0", "1", "2", "3", "4", "5", "6", "7", "8", "9", ".", "t", "s", "v">>,
         <<"/", "R", "E", "G", "I", "S", "T", "R", "Y", ".", "T", "S", "V">> }

\* the Accept-Encoding header values; the empty one is the absent header
AcceptEncodings == { <<>>, <<"d", "e", "f", "l", "a", "t", "e", ",", " ", "g", "z", "i", "p">>, <<"b", "r">> }

\* one GET request, served to completion; the compressor can only fail
\* where withGzip creates one
Request(path, ae, fails) ==
  /\ req' = [path |-> path, acceptEncoding |-> ae, gzipFails |-> fails]
  /\ fails => AcceptsGzip(req') /\ HasGzipExt(req')
  /\ resp' = withGzip(dist, req', keepHeaders)
  /\ servedFrom' = dist
  /\ UNCHANGED <<md, distDir, dist, pc, builderLocals, runs, startDist, prev,
                 keepHeaders>>

\* registry.md is edited
EditInput(file) ==
  /\ md' = file
  /\ md' # md
  /\ UNCHANGED <<distDir, dist, pc, builderLocals, runs, startDist, prev,
                 serverVars>>

\* the documents of the serving runs: two valid ones and one that fails
\* validation
ServeDocs ==
  { MkDoc(<<>>, HeaderLines[1], DelimLines[1], <<1, 2>>, LF),
    MkDoc(<<>>, HeaderLines[1], DelimLines[1], <<2>>, LF),
    MkDoc(<<>>, HeaderLines[1], DelimLines[1], <<1, 3>>, LF) }

ServeFiles == {File(t) : t \in ServeDocs}

\* static assets the served directory holds beside the builder's output
StaticFiles ==
  [n \in { <<"a", "p", "p", ".", "j", "s">>, <<"n", "o", "t", "e", "s", ".", "t", "x", "t">> } |->
     IF n = <<"a", "p", "p", ".", "j", "s">> THEN Utf8(<<"a", "=", "1">>) ELSE Utf8(<<"n", "o", "t", "e">>)]

InitServe ==
  /\ md \in ServeFiles
  /\ distDir = TRUE
  /\ dist = StaticFiles
  /\ InitBuilder
  /\ keepHeaders \in BOOLEAN
  /\ req = NoRequest
  /\ resp = NoResponse
  /\ servedFrom = <<>>

NextServe ==
  \/ Next
  \/ \E f \in ServeFiles : EditInput(f)
  \/ \E p \in RequestPaths, ae \in AcceptEncodings, fails \in BOOLEAN :
       Request(p, ae, fails)

SpecServe == InitServe /\ [][NextServe]_vars

----------------------------------------------------------------------------
(* Properties of the builder, checked under Spec *)

\* validateRows has returned or thrown in the current run
Validated ==
  \/ pc \in {"serialize", "writeStable", "writeHashed", "log", "done"}
  \/ pc = "failed" /\ stderr.kind = "Registry validation failed"

\* the body has been serialized in the current run
Serialized == pc \in {"writeStable", "writeHashed", "log", "done"}

\* the lines of the report of a given kind
ReportLines(kind) == SelectSeq(stderr.lines, LAMBDA e : e.kind = kind)

TrimmedSlug(i) == Trim(Field(rows[i], SLUG))

\* the n-th smallest element of a set of numbers
Nth(S, n) == CHOOSE i \in S : Cardinality({j \in S : j <= i}) = n

\* C2: a run whose input is missing, fails to parse or has a validation
\* violation never reaches the serializing and writing steps, ends failed, and
\* leaves every file of dist as it was when the run started; dist changes
\* only in a run whose rows validateRows accepted.
C2_NoOutputUnlessValid ==
  LET src == IF pc \in {"idle", "ensureDir", "read"} THEN md ELSE readMd
      parsed == parseMarkdownTable(src.text)
      invalid == \/ ~src.exists
                 \/ ~parsed.ok
                 \/ validateRows(parsed.rows) # <<>>
  IN  /\ (pc # "idle" /\ invalid) =>
           /\ dist = startDist
           /\ pc \in {"ensureDir", "read", "validate", "failed"}
           /\ pc = "failed" => stderr.kind # ""
      /\ dist # startDist =>
           /\ pc \in {"writeHashed", "log", "done"}
           /\ validateRows(rows) = <<>>

\* a run over rows with a violation has ended failed, with dist untouched
C2_Witness ==
  /\ pc = "failed"
  /\ stderr.kind = "Registry validation failed"
  /\ Len(stderr.lines) > 0
  /\ distDir
  /\ StableName \notin DOMAIN dist

\* C3: the report has exactly one duplicate-slug line for every row whose
\* trimmed, non-empty slug equals the trimmed slug of an earlier row, naming
\* the first row with that slug and the repeating row.
C3_DuplicateSlugs ==
  Validated =>
    LET dups == ReportLines("Duplicate slug")
        repeats == {i \in 1..Len(rows) :
                      /\ TrimmedSlug(i) # <<>>
                      /\ \E j \in 1..(i - 1) : TrimmedSlug(j) = TrimmedSlug(i)}
    IN  /\ Len(dups) = Cardinality(repeats)
        /\ \A i \in repeats :
             \E k \in 1..Len(dups) :
               /\ dups[k].rows =
                    <<Min({j \in 1..i : TrimmedSlug(j) = TrimmedSlug(i)}), i>>
               /\ dups[k].arg = TrimmedSlug(i)

\* a slug at rows 1, 2 and 3: the second and the third occurrence are both
\* reported against row 1
C3_Witness ==
  /\ Validated
  /\ \E k \in 1..Len(stderr.lines) :
       stderr.lines[k].kind = "Duplicate slug" /\ stderr.lines[k].rows = <<1, 2>>
  /\ \E k \in 1..Len(stderr.lines) :
       stderr.lines[k].kind = "Duplicate slug" /\ stderr.lines[k].rows = <<1, 3>>

\* the url-scheme lines of the report for row i
UrlLines(i) ==
  {k \in 1..Len(stderr.lines) :
     /\ stderr.lines[k].kind = "url is not http(s)"
     /\ stderr.lines[k].rows = <<i>>}

\* C5: the report has a url-scheme line for row i, and then exactly one,
\* if and only if the trimmed url of row i is non-empty and is not an
\* absolute http/https URL, whatever else is wrong in that row or another.
C5_UrlViolations ==
  Validated =>
    \A i \in 1..Len(rows) :
      LET url == Trim(Field(rows[i], URL))
      IN  /\ (url # <<>> /\ ~isHttpUrl(url)) => Cardinality(UrlLines(i)) = 1
          /\ ~(url # <<>> /\ ~isHttpUrl(url)) => UrlLines(i) = {}
          /\ \A k \in UrlLines(i) : stderr.lines[k].arg = url

\* a row with two violations, one of them the url scheme, beside a row with
\* an ftp url: both url lines and the other violation are in the one report
C5_Witness ==
  /\ Validated
  /\ Len(rows) = 2
  /\ Trim(Field(rows[1], URL)) = <<"f", "t", "p", ":", "/", "/", "x">>
  /\ Cardinality(UrlLines(1)) = 1
  /\ Cardinality(UrlLines(2)) = 1
  /\ \E k \in 1..Len(stderr.lines) :
       stderr.lines[k].kind = "slug has whitespace" /\ stderr.lines[k].rows = <<2>>

\* the records of the body: the lines before the final newline, each split
\* on tabs
BodyRecords ==
  LET ls == Split(body, "\n")
  IN  [i \in 1..(Len(ls) - 1) |-> Split(ls[i], "\t")]

\* the comma-separated pieces of a raw tags string, trimmed, the empty ones
\* dropped, in order
TagPieces(raw) ==
  LET commas == {i \in 1..Len(raw) : raw[i] = ","}
      piece(a) ==
        Trim(SubSeq(raw, a + 1,
                    Min({b \in commas \cup {Len(raw) + 1} : b > a}) - 1))
      starts == {a \in commas \cup {0} : piece(a) # <<>>}
  IN  [n \in 1..Cardinality(starts) |-> piece(Nth(starts, n))]

\* the pieces with a comma between each two
CommaJoined(pieces) ==
  LET at(n) == Len(pieces[n])
      RECURSIVE upto(_)
      upto(n) == IF n = 0 THEN <<>>
                 ELSE IF n = 1 THEN pieces[1]
                 ELSE upto(n - 1) \o <<",">> \o pieces[n]
  IN  upto(Len(pieces))

\* every tab, carriage return and newline replaced by a space
Sanitized(s) ==
  [i \in 1..Len(s) |-> IF s[i] \in {"\t", "\r", "\n"} THEN " " ELSE s[i]]

\* C6 as stated: the tags field of every record of the body is the
\* comma-joined list of the trimmed, non-empty pieces of the raw tags string.
C6_TagsAreJoinedPieces ==
  Serialized =>
    \A i \in 1..Len(rows) :
      /\ Len(BodyRecords) > i
      /\ Len(BodyRecords[i + 1]) = 4
      /\ BodyRecords[i + 1][4] = CommaJoined(TagPieces(Field(rows[i], TAGS)))

\* C6 amended: the tags field of every record of the body is the comma-joined
\* list of the trimmed, non-empty pieces of the raw tags string, order and
\* duplicates kept, with every tab, carriage return and newline inside a piece
\* replaced by a space.
C6_TagsAreSanitizedJoinedPieces ==
  Serialized =>
    \A i \in 1..Len(rows) :
      /\ Len(BodyRecords) > i
      /\ Len(BodyRecords[i + 1]) = 4
      /\ BodyRecords[i + 1][4] =
           Sanitized(CommaJoined(TagPieces(Field(rows[i], TAGS))))

\* "t, ,u,,t" has been written as "t,u,t" and "p<tab>q,r" as "p q,r"
C6_Witness ==
  /\ Serialized
  /\ Len(rows) = 2
  /\ Field(rows[1], TAGS) = <<"t", ",", " ", ",", "u", ",", ",", "t">>
  /\ BodyRecords[2][4] = <<"t", ",", "u", ",", "t">>
  /\ Field(rows[2], TAGS) = <<"p", "\t", "q", ",", "r">>
  /\ BodyRecords[3][4] = <<"p", " ", "q", ",", "r">>

\* no field of any row holds a tab, a carriage return or a newline
NoDelimitersInFields ==
  \A i \in 1..Len(rows) :
    \A k \in {SLUG, TITLE, URL, TAGS} :
      \A j \in 1..Len(Field(rows[i], k)) :
        Field(rows[i], k)[j] \notin {"\t", "\r", "\n"}

\* C8: for a validated row set without tab, carriage return or newline in its
\* fields, the body ends with one newline and, split on newlines and tabs,
\* is the header record followed by one four-field record per row, in row
\* order, holding the trimmed slug, title and url and the normalized tags.
C8_RoundTrip ==
  (Serialized /\ NoDelimitersInFields) =>
    /\ Len(body) > 0
    /\ body[Len(body)] = "\n"
    /\ Len(BodyRecords) = Len(rows) + 1
    /\ BodyRecords[1] = <<SLUG, TITLE, URL, TAGS>>
    /\ \A i \in 1..Len(rows) :
         BodyRecords[i + 1] =
           << Trim(Field(rows[i], SLUG)), Trim(Field(rows[i], TITLE)),
              Trim(Field(rows[i], URL)),
              CommaJoined(TagPieces(Field(rows[i], TAGS))) >>

\* two rows have been serialized, one with tags to normalize and one with
\* an empty tags field
C8_Witness ==
  /\ Serialized
  /\ NoDelimitersInFields
  /\ Len(rows) = 2
  /\ Field(rows[1], TAGS) = <<>>
  /\ Field(rows[2], TAGS) = <<"t", ",", " ", ",", "u", ",", ",", "t">>
  /\ Len(BodyRecords) = 3

\* C7: a run that ends after a successful run on the same registry.md has the
\* version of that run and leaves dist as that run left it; both files hold
\* the same bytes, "#v=<version>" and the body; and the version is the
\* leading VersionLen digits of the digest of the body alone.
C7_Idempotent ==
  /\ Serialized => version = SubSeq(sha256hex(Utf8(body)), 1, VersionLen)
  /\ pc \in {"log", "done"} =>
       /\ dist[StableName] = Utf8(metaOf(version) \o body)
       /\ dist[hashedName(version)] = dist[StableName]
  /\ (pc = "done" /\ prev.finished /\ prev.ok /\ prev.md = readMd) =>
       /\ version = prev.version
       /\ dist = prev.dist

\* a second run on the unchanged document has ended
C7_Witness ==
  /\ pc = "done"
  /\ runs = 2
  /\ prev.finished
  /\ prev.ok
  /\ prev.md = readMd
  /\ Len(rows) > 0

\* the table of the document the current run read: its header cells, and
\* the cells of each body line that has a non-empty cell, in document order;
\* the body lines are the lines from the second after the header line up to
\* the first that does not start with a pipe
DocTable ==
  LET lines == SplitLines(readMd.text)
      at == Min({i \in 1..(Len(lines) - 1) :
                   StartsWithPipe(lines[i]) /\ StartsWithPipe(lines[i + 1])})
      piped == {i \in (at + 2)..Len(lines) : StartsWithPipe(lines[i])}
      bodyLines == {i \in piped : \A j \in (at + 2)..i : j \in piped}
      cellsOf == [i \in bodyLines |-> Cells(lines[i])]
      kept == {i \in bodyLines : cellsOf[i] # <<>>}
  IN  [headers |-> Cells(lines[at]),
       bodyCells |-> [n \in 1..Cardinality(bodyLines) |->
                        cellsOf[Nth(bodyLines, n)]],
       keptCells |-> [n \in 1..Cardinality(kept) |-> cellsOf[Nth(kept, n)]]]

\* the k-th cell of a list of cells, empty when there are fewer
CellAt(cells, k) == IF k <= Len(cells) THEN cells[k] ELSE <<>>

\* the rows are in hand: parseMarkdownTable has returned them
Parsed == pc = "validate" \/ Validated

\* C10 as stated: the rows are the body lines with a non-empty cell, in
\* document order; each has exactly the header names as keys, and the k-th
\* header maps to the k-th cell of the line, or to the empty string.
C10_KthHeaderKthCell ==
  Parsed =>
    LET t == DocTable
    IN  /\ Len(rows) = Len(t.keptCells)
        /\ \A n \in 1..Len(rows) :
             /\ DOMAIN rows[n] = Range(t.headers)
             /\ \A k \in 1..Len(t.headers) :
                  /\ t.headers[k] \in DOMAIN rows[n]
                  /\ rows[n][t.headers[k]] = CellAt(t.keptCells[n], k)

\* C10 amended: the rows are the body lines with a non-empty cell, in
\* document order; each has as keys exactly the header names other than
\* __proto__, and a header name maps to the cell at the position of the last
\* header of that name, or to the empty string when the line has fewer cells.
C10_HeaderToCell ==
  Parsed =>
    LET t == DocTable
    IN  /\ Len(rows) = Len(t.keptCells)
        /\ \A n \in 1..Len(rows) :
             /\ DOMAIN rows[n] = Range(t.headers) \ { <<"_", "_", "p", "r", "o", "t", "o", "_", "_">> }
             /\ \A k \in 1..Len(t.headers) :
                  t.headers[k] # <<"_", "_", "p", "r", "o", "t", "o", "_", "_">> =>
                    rows[n][t.headers[k]] =
                      CellAt(t.keptCells[n],
                             Max({c \in 1..Len(t.headers) :
                                    t.headers[c] = t.headers[k]}))

\* a table of three body lines: one with a cell too many, one without any
\* cell, which gives no row, and one padded
C10_Witness ==
  /\ pc = "validate"
  /\ LET t == DocTable
     IN  /\ Len(t.bodyCells) = 3
         /\ Len(t.bodyCells[1]) > Len(t.headers)
         /\ t.bodyCells[2] = <<>>
         /\ Len(t.bodyCells[3]) < Len(t.headers)
  /\ Len(rows) = 2
  /\ rows[2][TAGS] = <<>>

----------------------------------------------------------------------------
(* Properties of the server, checked under SpecServe *)

HeaderIs(h, k, v) == k \in DOMAIN h /\ h[k] = <<v>>

\* the file a request path names in the served directory
FileOf(path) == SubSeq(path, 2, Len(path))

\* C1 as stated, for a registry.tsv that is there to serve: the response to
\* GET /registry.tsv carries Cache-Control: public, max-age=60, and without
\* an Accept-Encoding header it carries no Content-Encoding and its body is
\* the file.
C1_StableNameRevalidates ==
  (req.path = <<"/">> \o StableName /\ resp.status = 200) =>
    /\ HeaderIs(resp.headers, "Cache-Control", "public, max-age=60")
    /\ req.acceptEncoding = <<>> =>
         /\ "Content-Encoding" \notin DOMAIN resp.headers
         /\ resp.body = servedFrom[StableName]

\* C4: a request that mentions gzip, for a path that starts with /registry.
\* and ends with .tsv and names a file of dist, served with the compressor
\* initialized, is answered 200 with Content-Encoding: gzip, Vary:
\* Accept-Encoding and Cache-Control: public, max-age=31536000, immutable;
\* its body is the gzip stream of the bytes of that file, which under a
\* hash name are the bytes the builder wrote for that version.
C4_HashNamedGzip ==
  (/\ StartsWith(req.path, <<"/", "r", "e", "g", "i", "s", "t", "r", "y", ".">>)
   /\ EndsWith(req.path, <<".", "t", "s", "v">>)
   /\ AcceptsGzip(req)
   /\ ~req.gzipFails
   /\ FileOf(req.path) \in DOMAIN servedFrom) =>
    LET file == servedFrom[FileOf(req.path)]
    IN  /\ resp.status = 200
        /\ HeaderIs(resp.headers, "Content-Encoding", "gzip")
        /\ HeaderIs(resp.headers, "Vary", "Accept-Encoding")
        /\ HeaderIs(resp.headers, "Cache-Control",
                    "public, max-age=31536000, immutable")
        /\ resp.body = Gzip(file)
        /\ Gunzip(resp.body) = file
        /\ \A v \in {version, prev.version} :
             (v # <<>> /\ FileOf(req.path) = hashedName(v)) =>
               StartsWith(Gunzip(resp.body), Utf8(metaOf(v)))

\* a hash-named file the builder wrote has been served gzip-encoded
C4_Witness ==
  /\ pc = "done"
  /\ req.path = <<"/">> \o hashedName(version)
  /\ req.acceptEncoding = <<"d", "e", "f", "l", "a", "t", "e", ",", " ", "g", "z", "i", "p">>
  /\ ~req.gzipFails
  /\ resp.status = 200
  /\ Gunzip(resp.body) = fullBuf

\* C9 as stated, for a file that is there to serve: when the request is
\* eligible for gzip and the compressor fails to initialize, the response is
\* the one the same path gets without an Accept-Encoding header.
C9_FallbackIsPlainResponse ==
  (/\ AcceptsGzip(req)
   /\ HasGzipExt(req)
   /\ req.gzipFails
   /\ FileOf(req.path) \in DOMAIN servedFrom) =>
    resp = withGzip(servedFrom,
                    [req EXCEPT !.acceptEncoding = <<>>, !.gzipFails = FALSE],
                    keepHeaders)

====
